---------------------------- MODULE Spec2Model ----------------------------
(***************************************************************************)
(* Model of src/app.py: the Streamlit script "Webcam DIAL App".            *)
(*                                                                         *)
(* One run of the script (a "render") is modelled as a walk of pc from     *)
(* "idle" through the script's statements to "done", the end of the run,   *)
(* and back to "idle", where Streamlit waits for the next interaction.     *)
(* The session state (st.session_state.dial_insights, .last_snapshot_file) *)
(* and the widget values survive from one render to the next; the locals   *)
(* of a run and the log of what it did end with the run.  The camera, the  *)
(* network, the snapshots directory and the clock change between runs.     *)
(*                                                                         *)
(* Conventions                                                             *)
(*  - Python's None is the empty tuple <<>>, a value x is <<x>>.           *)
(*  - The `return` statements of lines 425, 437, 448, 456 and 462 stand    *)
(*    at module level.  They are modelled as what they are written to do:  *)
(*    they end the current run of the script (pc = "done"), so nothing     *)
(*    after them runs in that render, the stored-insights block of line    *)
(*    565 included.                                                        *)
(*  - cv2.VideoCapture.read() returns (True, frame) or (False, None); a    *)
(*    call into cv2 may also raise cv2.error or another exception.         *)
(*  - Streamlit's own widget calls (st.error, st.progress, ...) and        *)
(*    VideoCapture.release() are taken to return normally.                 *)
(***************************************************************************)
EXTENDS Integers, Sequences, FiniteSets, TLC

(***************************************************************************)
(* Bounds of the model.                                                    *)
(***************************************************************************)
MaxClock == 1
MaxUrlLen == 1
MaxFields == 2

(***************************************************************************)
(* Program constants.                                                      *)
(***************************************************************************)
NumProbeIndices == 4
snapshots_dir == "snapshots"

None == <<>>
Some(x) == <<x>>

CameraSources == {"Local Webcam", "Network Camera URL", "Test/Demo Mode"}

(***************************************************************************)
(* The URL typed into st.text_input: a string over a blank and a           *)
(* non-blank character.                                                    *)
(***************************************************************************)
UrlChars == {" ", "u"}
Urls == UNION {[1..n -> UrlChars] : n \in 0..MaxUrlLen}

RECURSIVE LStrip(_)
LStrip(s) == IF s # <<>> /\ Head(s) = " " THEN LStrip(Tail(s)) ELSE s

RECURSIVE RStrip(_)
RStrip(s) == IF s # <<>> /\ s[Len(s)] = " " THEN RStrip(SubSeq(s, 1, Len(s) - 1)) ELSE s

\* str.strip()
strip(s) == RStrip(LStrip(s))

\* line 272 without the strip(): only the empty string counts as empty
UrlIsEmpty_NoStrip(url) == url = <<>>

\* `not camera_url or camera_url.strip() == ""` (line 272)
UrlIsEmpty(url) == url = <<>> \/ strip(url) = <<>>

(***************************************************************************)
(* JSON values.  A value is [type, v]; v is the canonical text of the      *)
(* value.  Members gives the key/value pairs of the sample objects.        *)
(***************************************************************************)
JStr(s) == [type |-> "str", v |-> s]
JNum(s) == [type |-> "num", v |-> s]
JList(s) == [type |-> "list", v |-> s]
JMap(s) == [type |-> "map", v |-> s]
JNull == [type |-> "null", v |-> "null"]

ObjectTexts ==
    {"{}", "{status,confidence,labels}", "{status,results}", "{predictions,objects,metadata}",
     "{status:null,detections,analysis}"}
ArrayTexts == {"[1]"}
ScalarTexts == {"7"}
JsonTexts == ObjectTexts \cup ArrayTexts \cup ScalarTexts
InvalidTexts == {"not json", "server error", "<html>...</html>"}
BodyTexts == JsonTexts \cup InvalidTexts

\* len(response.text) of the sample bodies
TextLen(text) ==
    CASE text = "{}" -> 2
      [] text = "{status,confidence,labels}" -> 62
      [] text = "{status,results}" -> 40
      [] text = "{predictions,objects,metadata}" -> 201
      [] text = "{status:null,detections,analysis}" -> 200
      [] text = "[1]" -> 3
      [] text = "7" -> 1
      [] text = "not json" -> 8
      [] text = "server error" -> 12
      [] text = "<html>...</html>" -> 5000

\* the slice limit of response.text[:200] (lines 200, 205)
ExcerptLimit == 200

\* response.text[:200]: the first 200 characters of the body, or all of it
Excerpt(text) ==
    [of |-> text, len |-> IF TextLen(text) > ExcerptLimit THEN ExcerptLimit ELSE TextLen(text)]

Members(text) ==
    CASE text = "{}" -> <<>>
      [] text = "{status,confidence,labels}" ->
            ("status" :> JStr("success")) @@ ("confidence" :> JNum("0.87")) @@
            ("labels" :> JList("[cat,dog]"))
      [] text = "{status,results}" ->
            ("status" :> JStr("failed")) @@ ("results" :> JMap("{a:1}"))
      [] text = "{predictions,objects,metadata}" ->
            ("predictions" :> JList("[p]")) @@ ("objects" :> JList("[]")) @@
            ("metadata" :> JMap("{m:1}"))
      [] text = "{status:null,detections,analysis}" ->
            ("status" :> JNull) @@ ("detections" :> JList("[d]")) @@
            ("analysis" :> JStr("text"))

\* response.json() on a body that parses
json(text) ==
    IF text \in ObjectTexts THEN JMap(text)
    ELSE IF text \in ArrayTexts THEN JList(text)
    ELSE JNum(text)

\* json_data.get(key, default) on a dict
Get(json_data, key, default) ==
    IF key \in DOMAIN Members(json_data.v) THEN Members(json_data.v)[key] ELSE default

HttpStatuses == {200, 500}
\* the statuses an endpoint may answer with: 1xx to 5xx, the edges of each class
AllStatuses == {100, 199, 200, 201, 204, 299, 300, 304, 399, 400, 404, 499, 500, 503, 599}
\* the responses the endpoint gives in the workflow
Responses == [status: HttpStatuses,
              text: {"{status,confidence,labels}", "{status,results}", "[1]", "not json"}]

\* response.raise_for_status(): raises for 4xx and 5xx
RaisesForStatus(status) == status >= 400 /\ status < 600

BaseKeys == {"status", "predictions", "confidence", "detections", "labels", "metadata", "raw_response"}
OptionalKeys == {"results", "analysis", "objects"}

\* lines 189-194 copying results, analysis and objects whether present or not
BuildInsights_DefaultsOptional(json_data) ==
    [k \in BaseKeys \cup OptionalKeys |->
        CASE k = "status" -> Get(json_data, "status", JStr("unknown"))
          [] k = "predictions" -> Get(json_data, "predictions", JList("[]"))
          [] k = "confidence" -> Get(json_data, "confidence", JNull)
          [] k = "detections" -> Get(json_data, "detections", JList("[]"))
          [] k = "labels" -> Get(json_data, "labels", JList("[]"))
          [] k = "metadata" -> Get(json_data, "metadata", JMap("{}"))
          [] k = "raw_response" -> json_data
          [] OTHER -> Get(json_data, k, JNull)]

\* lines 178-194: the insights dict built from a parsed JSON object
BuildInsights(json_data) ==
    [k \in BaseKeys \cup (OptionalKeys \cap DOMAIN Members(json_data.v)) |->
        CASE k = "status" -> Get(json_data, "status", JStr("unknown"))
          [] k = "predictions" -> Get(json_data, "predictions", JList("[]"))
          [] k = "confidence" -> Get(json_data, "confidence", JNull)
          [] k = "detections" -> Get(json_data, "detections", JList("[]"))
          [] k = "labels" -> Get(json_data, "labels", JList("[]"))
          [] k = "metadata" -> Get(json_data, "metadata", JMap("{}"))
          [] k = "raw_response" -> json_data
          [] OTHER -> Members(json_data.v)[k]]

\* what an exception's message carries: an HTTP status, an excerpt of the body
NoDetail == [status |-> None, excerpt |-> None]

Raise(e) == [ok |-> FALSE, exc |-> e, insights |-> None, detail |-> NoDetail]
RaiseWith(e, d) == [ok |-> FALSE, exc |-> e, insights |-> None, detail |-> d]
Return(i) == [ok |-> TRUE, exc |-> "", insights |-> Some(i), detail |-> NoDetail]

\* line 205: str(e) of raise_for_status names the status; response.text[:200]
HttpErrorDetail(resp) == [status |-> Some(resp.status), excerpt |-> Some(Excerpt(resp.text))]

\* line 200: the JSON error and response.text[:200]
ValueErrorDetail(resp) == [status |-> None, excerpt |-> Some(Excerpt(resp.text))]

(***************************************************************************)
(* run_dial_inference(image_path), lines 151-207.  fileThere: open()       *)
(* finds the file; transport: requests.post returns a response; resp: the  *)
(* response.                                                               *)
(***************************************************************************)
run_dial_inference(fileThere, transport, resp) ==
    IF ~fileThere THEN Raise("FileNotFoundError")
    ELSE IF ~transport THEN Raise("RequestException")
    ELSE IF RaisesForStatus(resp.status) THEN RaiseWith("HTTPError", HttpErrorDetail(resp))
    ELSE IF resp.text \notin JsonTexts THEN RaiseWith("ValueError", ValueErrorDetail(resp))
    ELSE IF json(resp.text).type # "map" THEN Raise("AttributeError")
    ELSE Return(BuildInsights(json(resp.text)))

\* f"{snapshots_dir}/snapshot_{timestamp}.jpg" (line 430)
Filename(timestamp) == [dir |-> snapshots_dir, base |-> <<"snapshot", timestamp, "jpg">>]


(***************************************************************************)
(* Outcomes of the calls into cv2, the file system and the network.        *)
(***************************************************************************)
Raised == {"cv2.error", "Exception"}

\* cv2.VideoCapture(x) followed by isOpened(); `avail`: a device (or the
\* network) is there to be opened
OpenOutcomes(avail) ==
    IF avail THEN {"opened", "closed"} \cup Raised ELSE {"closed"} \cup Raised

\* cap.read(): (True, frame), (False, None) or an exception
ReadOutcomes == {"frame", "none"} \cup Raised

\* cv2.imwrite(filename, frame): True, False or an exception
WriteOutcomes == {"ok", "false"} \cup Raised

\* what the path "snapshots" can name in the working directory
DirEntries == {"missing", "dir", "file"}

\* os.path.exists(snapshots_dir), line 416: true for a directory and for a file
exists(entry) == entry # "missing"

\* cv2.imwrite(filename, frame), line 442: it can write only into a directory
imwrite(entry) == IF entry = "dir" THEN WriteOutcomes ELSE WriteOutcomes \ {"ok"}

Handle(src, index) == [src |-> src, index |-> index]

(***************************************************************************)
(* display_dial_insights, lines 13-148.  Its argument is a Python value: a  *)
(* dict is [type |-> "dict", fields |-> f] with f a function from keys to   *)
(* JSON values, anything else is a JSON value.  What it displays is a       *)
(* sequence of Streamlit calls, each tagged with the field it belongs to.   *)
(* A step of the function yields [exc, out]: whether an exception is in     *)
(* flight and what was displayed so far.                                    *)
(***************************************************************************)
JBool(s) == [type |-> "bool", v |-> s]
Dict(f) == [type |-> "dict", fields |-> f]

\* bool(v)
Truthy(v) ==
    CASE v.type = "null" -> FALSE
      [] v.type = "str" -> v.v # ""
      [] v.type = "num" -> v.v \notin {"0", "0.0"}
      [] v.type = "bool" -> v.v = "true"
      [] v.type = "list" -> v.v # "[]"
      [] v.type = "map" -> v.v # "{}"
      [] v.type = "dict" -> DOMAIN v.fields # {}

\* len(v) is defined: otherwise it raises TypeError
HasLen(v) == v.type \in {"str", "list", "map", "dict"}
\* isinstance(v, (int, float)); bool is a subclass of int
IsNumber(v) == v.type \in {"num", "bool"}
\* isinstance(v, list)
IsList(v) == v.type = "list"
\* isinstance(v, (dict, list))
IsDictOrList(v) == v.type \in {"list", "map", "dict"}

\* isinstance(insights, dict) accepting everything
IsDict_Always(insights) == TRUE

\* line 22: isinstance(insights, dict)
IsDict(insights) == insights.type = "dict"

\* insights.get(key): None when the key is missing
PyGet(insights, key) ==
    IF key \in DOMAIN insights.fields THEN insights.fields[key] ELSE JNull

\* `insights.get` exists: on any other value the attribute lookup raises
HasGet(insights) == insights.type = "dict"

Elem(field, call, shows) == [field |-> field, call |-> call, shows |-> shows]
Shown(out) == [exc |-> FALSE, out |-> out]
Raising(out) == [exc |-> TRUE, out |-> out]

\* lines 31-33
DisplayStatus(insights) ==
    IF ~HasGet(insights) THEN Raising(<<>>)
    ELSE LET v == PyGet(insights, "status")
         IN  IF Truthy(v) THEN Shown(<<Elem("status", "text", v)>>) ELSE Shown(<<>>)

\* lines 39-40: shown whenever it is not None; a number as a percentage
DisplayConfidence(insights) ==
    IF ~HasGet(insights) THEN Raising(<<>>)
    ELSE LET v == PyGet(insights, "confidence")
         IN  IF v # JNull
             THEN Shown(<<Elem("confidence", IF IsNumber(v) THEN "text_percent" ELSE "text", v)>>)
             ELSE Shown(<<>>)

\* lines 46-58, 64-76, 116-128: `get(k) and len(...) > 0`, then a table for a
\* list and the text of any other value; len() raises for a number or a bool
DisplayTable(insights, field, heading) ==
    IF ~HasGet(insights) THEN Raising(<<>>)
    ELSE LET v == PyGet(insights, field)
         IN  IF ~Truthy(v) THEN Shown(<<>>)
             ELSE IF ~HasLen(v) THEN Raising(<<>>)
             ELSE Shown(<<Elem(field, "subheader", JStr(heading)),
                          Elem(field, IF IsList(v) THEN "table" ELSE "text", v)>>)

\* lines 82-88
DisplayLabels(insights) ==
    IF ~HasGet(insights) THEN Raising(<<>>)
    ELSE LET v == PyGet(insights, "labels")
         IN  IF ~Truthy(v) THEN Shown(<<>>)
             ELSE IF ~HasLen(v) THEN Raising(<<>>)
             ELSE Shown(<<Elem("labels", "subheader", JStr("Labels")),
                          Elem("labels", IF IsList(v) THEN "text_joined" ELSE "text", v)>>)

\* lines 94-99, 105-110
DisplayJson(insights, field, heading) ==
    IF ~HasGet(insights) THEN Raising(<<>>)
    ELSE LET v == PyGet(insights, field)
         IN  IF Truthy(v)
             THEN Shown(<<Elem(field, "subheader", JStr(heading)),
                          Elem(field, IF IsDictOrList(v) THEN "json" ELSE "text", v)>>)
             ELSE Shown(<<>>)

\* lines 134-136
DisplayMetadata(insights) ==
    IF ~HasGet(insights) THEN Raising(<<>>)
    ELSE LET v == PyGet(insights, "metadata")
         IN  IF Truthy(v)
             THEN Shown(<<Elem("metadata", "subheader", JStr("Metadata")),
                          Elem("metadata", "json", v)>>)
             ELSE Shown(<<>>)

\* lines 142-143: insights.get('raw_response', {}) in an expander
DisplayRawResponse(insights) ==
    IF ~HasGet(insights) THEN Raising(<<>>)
    ELSE Shown(<<Elem("raw_response", "expander",
                      IF "raw_response" \in DOMAIN insights.fields
                      THEN insights.fields["raw_response"] ELSE JMap("{}"))>>)

\* the `except Exception` of each field: st.error in place of what failed
Catch(field, r) ==
    IF r.exc THEN Shown(r.out \o <<Elem(field, "error", JStr("Error displaying"))>>) ELSE r

\* the try blocks holding metadata before detections
SectionOrder_Swapped ==
    <<"status", "confidence", "predictions", "metadata", "labels", "results", "analysis",
      "objects", "detections", "raw_response">>

\* the try blocks of lines 29-145, in the order of the code
SectionOrder ==
    <<"status", "confidence", "predictions", "detections", "labels", "results", "analysis",
      "objects", "metadata", "raw_response">>

DisplayField(insights, field) ==
    Catch(field,
        CASE field = "status" -> DisplayStatus(insights)
          [] field = "confidence" -> DisplayConfidence(insights)
          [] field = "predictions" -> DisplayTable(insights, "predictions", "Predictions")
          [] field = "detections" -> DisplayTable(insights, "detections", "Detections")
          [] field = "labels" -> DisplayLabels(insights)
          [] field = "results" -> DisplayJson(insights, "results", "Results")
          [] field = "analysis" -> DisplayJson(insights, "analysis", "Analysis")
          [] field = "objects" -> DisplayTable(insights, "objects", "Objects")
          [] field = "metadata" -> DisplayMetadata(insights)
          [] field = "raw_response" -> DisplayRawResponse(insights))

\* the fields from position i on, one after the other, after `out` was
\* displayed; an exception that escapes a field skips the rest
RECURSIVE DisplayFrom(_, _, _)
DisplayFrom(insights, i, out) ==
    IF i > Len(SectionOrder) THEN Shown(out)
    ELSE LET r == DisplayField(insights, SectionOrder[i])
         IN  IF r.exc THEN Raising(out \o r.out)
             ELSE DisplayFrom(insights, i + 1, out \o r.out)

\* lines 26-27
Caption(snapshot_file) ==
    IF snapshot_file # None THEN <<Elem("snapshot_file", "caption", snapshot_file[1])>> ELSE <<>>

\* lines 147-148: the outer `except Exception`
CatchAll(r) ==
    IF r.exc
    THEN Shown(r.out \o <<Elem("insights", "error", JStr("Error displaying DIAL insights"))>>)
    ELSE r

display_dial_insights(insights, snapshot_file) ==
    CatchAll(
        IF ~IsDict(insights)
        THEN Shown(<<Elem("insights", "error", JStr("Invalid insights data: Expected a dictionary."))>>)
        ELSE DisplayFrom(insights, 1, Caption(snapshot_file)))

VARIABLES
    session_state,          \* st.session_state: dial_insights, last_snapshot_file
    camera_source,          \* st.radio (line 214)
    camera_url,             \* st.text_input (line 221)
    enable_dial_inference,  \* st.checkbox (line 227)
    clicked,                \* st.button("Capture Snapshot") in this render
    device,                 \* a local camera device is available
    network,                \* the network is available
    clock,                  \* datetime.now(), in seconds
    dirEntry,               \* what the path "snapshots" names: nothing, a directory, a file
    pc,                     \* position in the script
    frame,                  \* local `frame`
    filename,               \* local `filename`
    cap,                    \* local `cap`
    test_cap,               \* local `test_cap`
    idx,                    \* loop variable of `for idx in range(4)`
    camera_index,           \* local `camera_index`
    live,                   \* capture sessions created and not yet released
    log                     \* what this render did, for the properties

widgets == <<camera_source, camera_url, enable_dial_inference, clicked>>
environment == <<device, network, clock, dirEntry>>
locals == <<frame, filename, cap, test_cap, idx, camera_index>>
vars == <<session_state, widgets, environment, pc, locals, live, log>>

EmptyLog ==
    [before |-> [dial_insights |-> None, last_snapshot_file |-> None],
                            \* the session state when the script started
     msgs |-> {},           \* st.error messages displayed
     probed |-> <<>>,       \* cv2.VideoCapture(idx) calls: index and isOpened(), in order
     probeReads |-> <<>>,   \* device indices whose probe session was read, in order
     captureReads |-> 0,    \* reads of the selected local session (line 369)
     netOpens |-> <<>>,     \* outcomes of the cv2.VideoCapture(url) calls
     netReads |-> <<>>,     \* outcomes of the reads of the network session
     writes |-> <<>>,       \* cv2.imwrite calls: dirEntry, the path and the outcome
     displayed |-> FALSE,   \* st.image showed the frame
     posted |-> <<>>,       \* files sent by requests.post
     response |-> None,     \* the response received by requests.post
     inference |-> None,    \* what run_dial_inference returned or raised
     presented |-> <<>>,    \* calls of display_dial_insights
     rendered |-> None]     \* what display_dial_insights displayed: called on its own, or
                            \* at line 570 on the stored insights

Say(l, m) == [l EXCEPT !.msgs = @ \cup {m}]

Init ==
    /\ session_state = [dial_insights |-> None, last_snapshot_file |-> None]
    /\ camera_source = "Local Webcam"
    /\ camera_url = <<>>
    /\ enable_dial_inference = FALSE
    /\ clicked = FALSE
    /\ device = FALSE
    /\ network = FALSE
    /\ clock = 0
    /\ dirEntry = "missing"
    /\ pc = "idle"
    /\ frame = None /\ filename = None /\ cap = None /\ test_cap = None
    /\ idx = 0 /\ camera_index = None
    /\ live = {}
    /\ log = EmptyLog

(***************************************************************************)
(* A run of the script starts: lines 210-235.  The user's widget values    *)
(* and the state of the world are inputs.                                  *)
(***************************************************************************)
\* lines 230-233 without their `if ... not in st.session_state`
InitSessionState_Always(s) == [dial_insights |-> None, last_snapshot_file |-> None]

\* lines 230-233: a key is set to None only when the session does not have
\* it, that is in the first run; afterwards both keys are there
InitSessionState(s) == s

Rerun ==
    /\ pc = "idle"
    /\ \E src \in CameraSources, url \in Urls, en \in BOOLEAN, btn \in BOOLEAN :
        /\ camera_source' = src
        /\ camera_url' = IF src = "Network Camera URL" THEN url ELSE <<>>
        /\ src # "Network Camera URL" => url = <<>>
        /\ enable_dial_inference' = en
        /\ clicked' = btn
        /\ pc' = IF btn THEN "clear" ELSE "stored"
    /\ session_state' = InitSessionState(session_state)
    /\ log' = [EmptyLog EXCEPT !.before = session_state]
    /\ UNCHANGED <<environment, locals, live>>

(***************************************************************************)
(* Between two runs: a camera is plugged or unplugged, the network comes   *)
(* or goes, the snapshots directory is removed or created by someone else. *)
(***************************************************************************)
Environment ==
    /\ pc = "idle"
    /\ device' \in BOOLEAN
    /\ network' \in BOOLEAN
    /\ dirEntry' \in DirEntries
    /\ <<device', network', dirEntry'>> # <<device, network, dirEntry>>
    /\ UNCHANGED <<session_state, widgets, clock, pc, locals, live, log>>

\* a second passes between two runs
Tick ==
    /\ pc = "idle"
    /\ clock < MaxClock
    /\ clock' = clock + 1
    /\ UNCHANGED <<session_state, widgets, device, network, dirEntry, pc, locals, live, log>>

(***************************************************************************)
(* The run of the script has ended (end of file, or a `return`): its       *)
(* locals are gone and the button reads False again.                       *)
(***************************************************************************)
ScriptEnd ==
    /\ pc = "done"
    /\ pc' = "idle"
    /\ clicked' = FALSE
    /\ frame' = None /\ filename' = None /\ cap' = None /\ test_cap' = None
    /\ idx' = 0 /\ camera_index' = None
    /\ log' = EmptyLog
    /\ UNCHANGED <<session_state, camera_source, camera_url, enable_dial_inference, environment, live>>

\* lines 238-239 with the second assignment missing
ClearSessionState_KeepFile(s) == [s EXCEPT !.dial_insights = None]

\* lines 238-239 with the first assignment missing
ClearSessionState_KeepInsights(s) == [s EXCEPT !.last_snapshot_file = None]

\* lines 238-239
ClearSessionState(s) == [s EXCEPT !.dial_insights = None, !.last_snapshot_file = None]

\* lines 236-248, 271, 321: clear the session state and dispatch on the source
ClearState ==
    /\ pc = "clear"
    /\ session_state' = ClearSessionState(session_state)
    /\ frame' = None
    /\ pc' = CASE camera_source = "Test/Demo Mode" -> "test"
               [] camera_source = "Network Camera URL" -> "net_url"
               [] OTHER -> "local"
    /\ UNCHANGED <<widgets, environment, filename, cap, test_cap, idx, camera_index, live, log>>

\* lines 248-269
TestMode ==
    /\ pc = "test"
    /\ \E generated \in BOOLEAN :
        IF generated
        THEN /\ frame' = Some("test_image")
             /\ log' = log
        ELSE /\ frame' = None
             /\ log' = Say(log, "Error generating test image")
    /\ pc' = "frame_check"
    /\ UNCHANGED <<session_state, widgets, environment, filename, cap, test_cap, idx, camera_index, live>>

(***************************************************************************)
(* Network camera, lines 271-319.                                          *)
(***************************************************************************)
NetUrl ==
    /\ pc = "net_url"
    /\ IF UrlIsEmpty(camera_url)
       THEN /\ log' = Say(log, "Please enter a camera URL.")
            /\ pc' = "frame_check"
       ELSE /\ log' = log
            /\ pc' = "net_open"
    /\ cap' = None
    /\ UNCHANGED <<session_state, widgets, environment, frame, filename, test_cap, idx, camera_index, live>>

\* lines 283-286, 301-313
NetOpen ==
    /\ pc = "net_open"
    /\ \E out \in OpenOutcomes(network) :
        CASE out = "opened" ->
                /\ cap' = Some(Handle("net", 0))
                /\ live' = live \cup {Handle("net", 0)}
                /\ log' = [log EXCEPT !.netOpens = Append(@, out)]
                /\ pc' = "net_read"
          [] out = "closed" ->
                /\ cap' = Some(Handle("net", 0))
                /\ live' = live \cup {Handle("net", 0)}
                /\ log' = Say([log EXCEPT !.netOpens = Append(@, out)], "Unable to connect to camera URL")
                /\ pc' = "net_finally"
          [] out = "cv2.error" ->
                /\ cap' = None
                /\ live' = live
                /\ log' = Say([log EXCEPT !.netOpens = Append(@, out)], "OpenCV error while accessing network camera")
                /\ pc' = "net_finally"
          [] OTHER ->
                /\ cap' = None
                /\ live' = live
                /\ log' = Say([log EXCEPT !.netOpens = Append(@, out)], "Unexpected error accessing network camera")
                /\ pc' = "net_finally"
    /\ UNCHANGED <<session_state, widgets, environment, frame, filename, test_cap, idx, camera_index>>

\* lines 287-300, 306-313
NetRead ==
    /\ pc = "net_read"
    /\ \E out \in ReadOutcomes :
        CASE out = "frame" ->
                /\ frame' = Some("net_frame")
                /\ log' = [log EXCEPT !.netReads = Append(@, out)]
          [] out = "none" ->
                /\ frame' = None
                /\ log' = Say([log EXCEPT !.netReads = Append(@, out)], "Failed to capture frame from network camera.")
          [] out = "cv2.error" ->
                /\ frame' = frame
                /\ log' = Say([log EXCEPT !.netReads = Append(@, out)], "OpenCV error while accessing network camera")
          [] OTHER ->
                /\ frame' = frame
                /\ log' = Say([log EXCEPT !.netReads = Append(@, out)], "Unexpected error accessing network camera")
    /\ pc' = "net_finally"
    /\ UNCHANGED <<session_state, widgets, environment, filename, cap, test_cap, idx, camera_index, live>>

\* a release that does nothing
Release_Leak(sessions, c) == sessions

\* cap.release() of a finally block (lines 315-317, 402-404)
Release(sessions, c) == sessions \ {c[i] : i \in 1..Len(c)}

\* lines 314-319
NetFinally ==
    /\ pc = "net_finally"
    /\ live' = Release(live, cap)
    /\ pc' = "frame_check"
    /\ UNCHANGED <<session_state, widgets, environment, locals, log>>


(***************************************************************************)
(* Local webcam, lines 321-406.                                            *)
(***************************************************************************)
LocalStart ==
    /\ pc = "local"
    /\ cap' = None
    /\ camera_index' = None
    /\ idx' = 0
    /\ test_cap' = None
    /\ pc' = "probe_open"
    /\ UNCHANGED <<session_state, widgets, environment, frame, filename, live, log>>

\* lines 332-337 and the exception handlers of lines 349-362
ProbeOpen ==
    /\ pc = "probe_open"
    /\ \E out \in OpenOutcomes(device) :
        CASE out = "opened" ->
                /\ test_cap' = Some(Handle("local", idx))
                /\ live' = live \cup {Handle("local", idx)}
                /\ log' = [log EXCEPT !.probed = Append(@, [idx |-> idx, opened |-> out = "opened"])]
                /\ pc' = "probe_read"
          [] out = "closed" ->
                /\ test_cap' = Some(Handle("local", idx))
                /\ live' = live \cup {Handle("local", idx)}
                /\ log' = [log EXCEPT !.probed = Append(@, [idx |-> idx, opened |-> out = "opened"])]
                /\ pc' = "probe_release"
          [] out = "cv2.error" ->
                /\ test_cap' = None
                /\ live' = live
                /\ log' = Say([log EXCEPT !.probed = Append(@, [idx |-> idx, opened |-> out = "opened"])], "OpenCV error accessing camera")
                /\ pc' = "probe_next"
          [] OTHER ->
                /\ test_cap' = None
                /\ live' = live
                /\ log' = Say([log EXCEPT !.probed = Append(@, [idx |-> idx, opened |-> out = "opened"])], "Unexpected error accessing camera")
                /\ pc' = "probe_next"
    /\ UNCHANGED <<session_state, widgets, environment, frame, filename, cap, idx, camera_index>>

\* the probe loop without the `break` of line 344
AfterProbeRead_NoBreak(out) == IF out = "frame" THEN "probe_next" ELSE "probe_release"

\* where the probe loop goes after test_cap.read(): `break` on a frame
\* (line 344), release otherwise (lines 346, 353, 360)
AfterProbeRead(out) == IF out = "frame" THEN "local_check" ELSE "probe_release"

\* lines 338-346 and the exception handlers of lines 349-362
ProbeRead ==
    /\ pc = "probe_read"
    /\ \E out \in ReadOutcomes :
        /\ CASE out = "frame" ->
                    /\ cap' = test_cap
                    /\ camera_index' = Some(idx)
                    /\ log' = [log EXCEPT !.probeReads = Append(@, idx)]
              [] out = "none" ->
                    /\ UNCHANGED <<cap, camera_index>>
                    /\ log' = [log EXCEPT !.probeReads = Append(@, idx)]
              [] out = "cv2.error" ->
                    /\ UNCHANGED <<cap, camera_index>>
                    /\ log' = Say([log EXCEPT !.probeReads = Append(@, idx)], "OpenCV error accessing camera")
              [] OTHER ->
                    /\ UNCHANGED <<cap, camera_index>>
                    /\ log' = Say([log EXCEPT !.probeReads = Append(@, idx)], "Unexpected error accessing camera")
        /\ pc' = AfterProbeRead(out)
    /\ UNCHANGED <<session_state, widgets, environment, frame, filename, test_cap, idx, live>>

\* test_cap.release(), lines 346, 348, 353, 360
ProbeRelease ==
    /\ pc = "probe_release"
    /\ live' = Release(live, test_cap)
    /\ pc' = "probe_next"
    /\ UNCHANGED <<session_state, widgets, environment, locals, log>>

\* `for idx in range(4)`, line 331: the next index, or the end of the loop
ProbeNext ==
    /\ pc = "probe_next"
    /\ IF idx + 1 < NumProbeIndices
       THEN /\ idx' = idx + 1
            /\ test_cap' = None
            /\ pc' = "probe_open"
       ELSE /\ UNCHANGED <<idx, test_cap>>
            /\ pc' = "local_check"
    /\ UNCHANGED <<session_state, widgets, environment, frame, filename, cap, camera_index, live, log>>

\* cap.isOpened() of line 364
isOpened(c, sessions) == c # None /\ c[1] \in sessions

\* lines 364, 388-395
LocalCheck ==
    /\ pc = "local_check"
    /\ IF isOpened(cap, live)
       THEN /\ log' = log
            /\ pc' = "local_read"
       ELSE /\ log' = Say(log, "Unable to access webcam")
            /\ pc' = "local_finally"
    /\ UNCHANGED <<session_state, widgets, environment, locals, live>>

\* lines 365-387
LocalRead ==
    /\ pc = "local_read"
    /\ \E out \in ReadOutcomes :
        CASE out = "frame" ->
                /\ frame' = Some("local_frame")
                /\ log' = [log EXCEPT !.captureReads = @ + 1]
          [] out = "none" ->
                /\ frame' = None
                /\ log' = Say([log EXCEPT !.captureReads = @ + 1], "Failed to capture frame from webcam.")
          [] out = "cv2.error" ->
                /\ frame' = frame
                /\ log' = Say([log EXCEPT !.captureReads = @ + 1], "OpenCV error capturing frame")
          [] OTHER ->
                /\ frame' = frame
                /\ log' = Say([log EXCEPT !.captureReads = @ + 1], "Unexpected error capturing frame")
    /\ pc' = "local_finally"
    /\ UNCHANGED <<session_state, widgets, environment, filename, cap, test_cap, idx, camera_index, live>>

\* lines 400-406
LocalFinally ==
    /\ pc = "local_finally"
    /\ live' = Release(live, cap)
    /\ pc' = "frame_check"
    /\ UNCHANGED <<session_state, widgets, environment, locals, log>>


(***************************************************************************)
(* Saving and showing the frame, lines 408-483.                            *)
(***************************************************************************)
\* line 409
FrameCheck ==
    /\ pc = "frame_check"
    /\ pc' = IF frame # None THEN "mkdir" ELSE "stored"
    /\ UNCHANGED <<session_state, widgets, environment, locals, live, log>>

\* the handler of lines 419-425 ending the process instead of the run
AfterMakedirs_Exit(out) == IF out = "OSError" THEN "exited" ELSE "genname"

\* where the script goes after lines 417-418: `return` on OSError (line 425)
AfterMakedirs(out) == IF out = "OSError" THEN "done" ELSE "genname"

\* lines 413-425
MakeDir ==
    /\ pc = "mkdir"
    /\ \E out \in IF exists(dirEntry) THEN {"exists"} ELSE {"created", "OSError"} :
        /\ CASE out = "exists" ->
                    /\ UNCHANGED <<dirEntry, frame>>
                    /\ log' = log
              [] out = "created" ->
                    /\ dirEntry' = "dir"
                    /\ frame' = frame
                    /\ log' = log
              [] OTHER ->
                    /\ dirEntry' = dirEntry
                    /\ frame' = None
                    /\ log' = Say(log, "Error creating snapshots directory")
        /\ pc' = AfterMakedirs(out)
    /\ UNCHANGED <<session_state, widgets, device, network, clock, filename, cap, test_cap, idx,
                   camera_index, live>>

\* lines 428-431; strftime with a fixed format does not fail
GenFilename ==
    /\ pc = "genname"
    /\ filename' = Some(Filename(clock))
    /\ pc' = "imwrite"
    /\ UNCHANGED <<session_state, widgets, environment, frame, cap, test_cap, idx, camera_index, live, log>>

\* cv2.imwrite's return value not tested: only an exception aborts
AfterImwrite_IgnoreFalse(out) == IF out \in {"ok", "false"} THEN "show" ELSE "done"

\* the handlers of lines 443-462 without their `return`
AfterImwrite_NoReturn(out) == "show"

\* where the script goes after cv2.imwrite: `return` when it reports failure
\* or raises (lines 448, 456, 462)
AfterImwrite(out) == IF out = "ok" THEN "show" ELSE "done"

\* lines 439-462
ImWrite ==
    /\ pc = "imwrite"
    /\ \E out \in imwrite(dirEntry) :
        /\ CASE out = "ok" ->
                    /\ frame' = frame
                    /\ log' = [log EXCEPT !.writes = Append(@, [dir |-> dirEntry, path |-> filename, out |-> out])]
              [] out = "false" ->
                    /\ frame' = None
                    /\ log' = Say([log EXCEPT !.writes = Append(@, [dir |-> dirEntry, path |-> filename, out |-> out])], "Failed to save image")
              [] out = "cv2.error" ->
                    /\ frame' = None
                    /\ log' = Say([log EXCEPT !.writes = Append(@, [dir |-> dirEntry, path |-> filename, out |-> out])], "OpenCV error saving image")
              [] OTHER ->
                    /\ frame' = None
                    /\ log' = Say([log EXCEPT !.writes = Append(@, [dir |-> dirEntry, path |-> filename, out |-> out])], "Unexpected error saving image")
        /\ pc' = AfterImwrite(out)
    /\ UNCHANGED <<session_state, widgets, environment, filename, cap, test_cap, idx, camera_index, live>>

\* lines 464-480: cv2.cvtColor and st.image; cvtColor raises on None
ShowFrame ==
    /\ pc = "show"
    /\ \E out \in IF frame # None THEN {"ok"} \cup Raised ELSE Raised :
        CASE out = "ok" -> log' = [log EXCEPT !.displayed = TRUE]
          [] out = "cv2.error" -> log' = Say(log, "OpenCV error converting image color")
          [] OTHER -> log' = Say(log, "Error displaying image")
    /\ pc' = "store_file"
    /\ UNCHANGED <<session_state, widgets, environment, locals, live>>

\* line 483 missing
StoreSnapshotFile_Dropped(s, f) == s

\* line 483
StoreSnapshotFile(s, f) == [s EXCEPT !.last_snapshot_file = f]

\* lines 482-486, 551
\* line 486 entered whatever the checkbox says
AfterStoreFile_AlwaysInfer(enabled) == "infer"

\* line 486: `if enable_dial_inference:`, else line 551
AfterStoreFile(enabled) == IF enabled THEN "infer" ELSE "no_infer"

StoreFile ==
    /\ pc = "store_file"
    /\ session_state' = StoreSnapshotFile(session_state, filename)
    /\ pc' = AfterStoreFile(enable_dial_inference)
    /\ UNCHANGED <<widgets, environment, locals, live, log>>

(***************************************************************************)
(* DIAL inference, lines 486-557.                                          *)
(***************************************************************************)
\* display_dial_insights(insights, snapshot_file) is called under `heading`
Present(l, heading, insights, snapshot_file) ==
    [l EXCEPT !.presented =
        Append(@, [heading |-> heading, insights |-> insights, snapshot_file |-> snapshot_file])]

\* line 505 missing: the result is displayed but not stored
StoreInsights_Dropped(s, insights) == s

\* line 505 storing the payload instead of the normalized result
StoreInsights_Payload(s, insights) ==
    [s EXCEPT !.dial_insights = IF insights = None THEN None ELSE Some(insights[1].raw_response)]

\* line 505
StoreInsights(s, insights) == [s EXCEPT !.dial_insights = insights]

\* the st.error of the handlers of lines 521-550
InferenceMessage(exc) ==
    CASE exc = "FileNotFoundError" -> "Image file not found"
      [] exc = "HTTPError" -> "HTTP error from DIAL API"
      [] exc = "RequestException" -> "Network error connecting to DIAL API"
      [] exc = "ValueError" -> "Invalid API response"
      [] OTHER -> "Unexpected error running DIAL inference"

\* lines 486-550
Infer ==
    /\ pc = "infer"
    /\ \E fileThere \in BOOLEAN, transport \in (IF network THEN BOOLEAN ELSE {FALSE}),
          resp \in Responses :
        LET r == run_dial_inference(fileThere, transport, resp)
            sent == IF fileThere THEN [log EXCEPT !.posted = Append(@, filename)] ELSE log
            recv == IF fileThere /\ transport THEN [sent EXCEPT !.response = Some(resp)] ELSE sent
            got == [recv EXCEPT !.inference = Some(r)]
        IN  /\ ~fileThere => (~transport /\ resp = [status |-> 200, text |-> "[1]"])
            /\ ~transport => resp = [status |-> 200, text |-> "[1]"]
            /\ IF r.ok
               THEN /\ session_state' = StoreInsights(session_state, r.insights)
                    /\ log' = Present(got, "DIAL API Insights", r.insights, filename)
               ELSE /\ session_state' = StoreInsights(session_state, None)
                    /\ log' = Say(got, InferenceMessage(r.exc))
    /\ pc' = "stored"
    /\ UNCHANGED <<widgets, environment, locals, live>>

\* lines 551-557
NoInfer ==
    /\ pc = "no_infer"
    /\ pc' = "stored"
    /\ UNCHANGED <<session_state, widgets, environment, locals, live, log>>

(***************************************************************************)
(* The stored-insights block, lines 565-574.                               *)
(***************************************************************************)
\* the block of lines 565-570 never entered
ShowStored_Never(s) == FALSE

\* line 567 testing the snapshot file only
ShowStored_FileOnly(s) == s.last_snapshot_file # None

\* line 567: `dial_insights is not None and last_snapshot_file`; a stored
\* file name is a non-empty string
ShowStored(s) == s.dial_insights # None /\ s.last_snapshot_file # None

\* lines 571-574: when the display raised, the stored insights are cleared
AfterStoredDisplay(s, r) == IF r.exc THEN [s EXCEPT !.dial_insights = None] ELSE s

\* the Python value held in st.session_state.dial_insights: None, or the dict
\* built at line 178
StoredValue(s) == IF s.dial_insights = None THEN JNull ELSE Dict(s.dial_insights[1])

\* display_dial_insights tabulated once over the results built from the sample
\* bodies and the snapshot paths of the model
StoredDisplays ==
    [a \in {Dict(BuildInsights(json(t))) : t \in ObjectTexts}
            \X {Some(Filename(t)) : t \in 0..MaxClock} |->
        display_dial_insights(a[1], a[2])]

\* line 570: display_dial_insights(dial_insights, last_snapshot_file)
StoredDisplay(s) ==
    LET a == <<StoredValue(s), s.last_snapshot_file>>
    IN  IF a \in DOMAIN StoredDisplays THEN StoredDisplays[a]
        ELSE display_dial_insights(a[1], a[2])

Stored ==
    /\ pc = "stored"
    /\ IF ShowStored(session_state)
       THEN /\ log' = [Present(log, "Latest DIAL API Insights", session_state.dial_insights,
                               session_state.last_snapshot_file)
                            EXCEPT !.rendered = Some(StoredDisplay(session_state))]
            /\ session_state' = AfterStoredDisplay(session_state, log'.rendered[1])
       ELSE /\ log' = log
            /\ session_state' = session_state
    /\ pc' = "done"
    /\ UNCHANGED <<widgets, environment, locals, live>>

Next ==
    \/ Rerun
    \/ Environment
    \/ Tick
    \/ ScriptEnd
    \/ ClearState
    \/ TestMode
    \/ NetUrl
    \/ NetOpen
    \/ NetRead
    \/ NetFinally
    \/ LocalStart
    \/ ProbeOpen
    \/ ProbeRead
    \/ ProbeRelease
    \/ ProbeNext
    \/ LocalCheck
    \/ LocalRead
    \/ LocalFinally
    \/ FrameCheck
    \/ MakeDir
    \/ GenFilename
    \/ ImWrite
    \/ ShowFrame
    \/ StoreFile
    \/ Infer
    \/ NoInfer
    \/ Stored

Spec == Init /\ [][Next]_vars

(***************************************************************************)
(* A run of the script that has started goes on: every call it makes        *)
(* returns, so the interpreter always takes the next step of the script.    *)
(* The user and the world are free to do nothing.                           *)
(***************************************************************************)
Step ==
    \/ ScriptEnd \/ ClearState \/ TestMode \/ NetUrl \/ NetOpen \/ NetRead \/ NetFinally
    \/ LocalStart \/ ProbeOpen \/ ProbeRead \/ ProbeRelease \/ ProbeNext \/ LocalCheck
    \/ LocalRead \/ LocalFinally \/ FrameCheck \/ MakeDir \/ GenFilename \/ ImWrite
    \/ ShowFrame \/ StoreFile \/ Infer \/ NoInfer \/ Stored

LiveSpec == Init /\ [][Next]_vars /\ WF_vars(Step)

(***************************************************************************)
(* display_dial_insights on its own: one call, as the stored-insights      *)
(* block makes it (line 570), over dicts holding up to MaxFields of the     *)
(* fields with values of every JSON type, the results run_dial_inference   *)
(* builds, a dict with every field filled, and values that are no dict.    *)
(***************************************************************************)
FieldValues ==
    {JNull, JStr(""), JStr("success"), JNum("0"), JNum("0.87"), JBool("true"),
     JList("[]"), JList("[cat,dog]"), JMap("{}"), JMap("{a:1}")}

FieldNames == {SectionOrder[i] : i \in 1..Len(SectionOrder)}

SmallDicts ==
    UNION {[K -> FieldValues] : K \in {K \in SUBSET FieldNames : Cardinality(K) <= MaxFields}}

FullInsights ==
    [k \in FieldNames |->
        CASE k = "status" -> JStr("success")
          [] k = "confidence" -> JNum("0.87")
          [] k = "labels" -> JList("[cat,dog]")
          [] k \in {"predictions", "detections", "objects"} -> JList("[{a:1},2]")
          [] OTHER -> JMap("{a:1}")]

PresenterArgs ==
    {Dict(f) : f \in SmallDicts \cup {BuildInsights(json(t)) : t \in ObjectTexts} \cup {FullInsights}}
    \cup {JNull, JStr("text"), JNum("7"), JList("[1]")}

PresenterInit ==
    /\ \E insights \in PresenterArgs, snapshot_file \in {None, Some(Filename(0))} :
        session_state = [dial_insights |-> Some(insights), last_snapshot_file |-> snapshot_file]
    /\ camera_source = "Local Webcam"
    /\ camera_url = <<>>
    /\ enable_dial_inference = FALSE
    /\ clicked = FALSE
    /\ device = FALSE
    /\ network = FALSE
    /\ clock = 0
    /\ dirEntry = "missing"
    /\ pc = "display"
    /\ frame = None /\ filename = None /\ cap = None /\ test_cap = None
    /\ idx = 0 /\ camera_index = None
    /\ live = {}
    /\ log = EmptyLog

PresenterCall ==
    /\ pc = "display"
    /\ log' = [log EXCEPT !.rendered =
                    Some(display_dial_insights(session_state.dial_insights[1],
                                               session_state.last_snapshot_file))]
    /\ pc' = "displayed"
    /\ UNCHANGED <<session_state, widgets, environment, locals, live>>

PresenterNext == PresenterCall

PresenterSpec == PresenterInit /\ [][PresenterNext]_vars

(***************************************************************************)
(* run_dial_inference on its own, lines 151-207: one call with a snapshot   *)
(* path, over every answer of the endpoint.  The call is logged as Infer    *)
(* logs it: the file sent, the response received, the outcome.              *)
(***************************************************************************)
ClientResponses == [status : AllStatuses, text : BodyTexts]

ClientInit ==
    /\ session_state = [dial_insights |-> None, last_snapshot_file |-> None]
    /\ camera_source = "Local Webcam"
    /\ camera_url = <<>>
    /\ enable_dial_inference = TRUE
    /\ clicked = FALSE
    /\ device = FALSE
    /\ network = TRUE
    /\ clock = 0
    /\ dirEntry = "dir"
    /\ pc = "call"
    /\ frame = None /\ filename = Some(Filename(0)) /\ cap = None /\ test_cap = None
    /\ idx = 0 /\ camera_index = None
    /\ live = {}
    /\ log = EmptyLog

ClientCall ==
    /\ pc = "call"
    /\ \E fileThere \in BOOLEAN, transport \in BOOLEAN, resp \in ClientResponses :
        LET r == run_dial_inference(fileThere, transport, resp)
            sent == IF fileThere THEN [log EXCEPT !.posted = Append(@, filename)] ELSE log
            recv == IF fileThere /\ transport THEN [sent EXCEPT !.response = Some(resp)] ELSE sent
        IN  /\ ~(fileThere /\ transport) => resp = [status |-> 200, text |-> "{}"]
            /\ log' = [recv EXCEPT !.inference = Some(r)]
    /\ pc' = "returned"
    /\ UNCHANGED <<session_state, widgets, environment, locals, live>>

ClientNext == ClientCall

ClientSpec == ClientInit /\ [][ClientNext]_vars


(***************************************************************************)
(* Vocabulary of the properties.                                           *)
(***************************************************************************)
Cleared == [dial_insights |-> None, last_snapshot_file |-> None]

\* the script is inside the acquisition of a frame (lines 248-406)
AcquisitionPcs ==
    {"test", "net_url", "net_open", "net_read", "net_finally", "local", "probe_open",
     "probe_read", "probe_release", "probe_next", "local_check", "local_read", "local_finally"}

\* the capture cycle of a render in which the button fired is over
CycleDone == clicked /\ pc \in {"stored", "done"}

InferenceFailed == log.inference # None /\ ~log.inference[1].ok
InferenceSucceeded == log.inference # None /\ log.inference[1].ok

InferenceMessages ==
    {"Image file not found", "HTTP error from DIAL API", "Network error connecting to DIAL API",
     "Invalid API response", "Unexpected error running DIAL inference"}

SaveMessages == {"Failed to save image", "OpenCV error saving image", "Unexpected error saving image"}

Headings(l) == {l.presented[i].heading : i \in 1..Len(l.presented)}

(***************************************************************************)
(* C1: on every capture trigger, whatever the camera source, lastInsights  *)
(* and lastSnapshotPath are both absent when acquisition starts and stay   *)
(* absent all through acquisition.                                         *)
(***************************************************************************)
C1_ClearedBeforeAcquisition == pc \in AcquisitionPcs => session_state = Cleared

\* acquisition is running in a cycle that started with stored results
C1_Witness ==
    /\ pc \in {"test", "net_open", "probe_open"}
    /\ log.before.dial_insights # None
    /\ log.before.last_snapshot_file # None
    /\ session_state = Cleared

(***************************************************************************)
(* C2: when inference is enabled and the Inference Client call fails, the  *)
(* capture cycle ends with lastInsights and lastSnapshotPath both absent   *)
(* and with a failure message displayed.                                   *)
(***************************************************************************)
C2_InferenceFailureLeavesBothAbsent ==
    (CycleDone /\ enable_dial_inference /\ InferenceFailed) =>
        /\ session_state = Cleared
        /\ log.msgs \cap InferenceMessages # {}

C4_AllSourcesFailWithoutDevice ==
    (CycleDone /\ ~device /\ ~network) =>
        /\ log.msgs # {}
        /\ session_state = Cleared

(***************************************************************************)
(* C4 amended: for the local webcam and the network camera URL, a capture  *)
(* triggered with no camera device and no network ends with a failure      *)
(* message and with lastInsights and lastSnapshotPath both absent.         *)
(***************************************************************************)
C4_Amended ==
    (CycleDone /\ ~device /\ ~network /\ camera_source # "Test/Demo Mode") =>
        /\ log.msgs # {}
        /\ session_state = Cleared

\* a local-webcam cycle that began with stored results found no device
C4_Witness ==
    /\ CycleDone
    /\ ~device /\ ~network
    /\ camera_source = "Local Webcam"
    /\ Len(log.probed) = NumProbeIndices
    /\ log.before.dial_insights # None
    /\ "Unable to access webcam" \in log.msgs

(***************************************************************************)
(* C5: when inference is enabled and acquisition, persistence and the      *)
(* inference call all succeed, the cycle ends with lastInsights equal to   *)
(* the result built from this call's response and lastSnapshotPath equal   *)
(* to the path written in this cycle.                                      *)
(***************************************************************************)
C5_SuccessStoresThisResult ==
    (CycleDone /\ enable_dial_inference /\ InferenceSucceeded) =>
        /\ log.response # None
        /\ session_state.dial_insights = Some(BuildInsights(json(log.response[1].text)))
        /\ session_state.dial_insights[1]["raw_response"] = JMap(log.response[1].text)
        /\ Len(log.writes) = 1 /\ log.writes[1].out = "ok"
        /\ session_state.last_snapshot_file = Some(Filename(clock))
        /\ log.posted = <<session_state.last_snapshot_file>>

\* a successful cycle replaced an earlier, different result
C5_Witness ==
    /\ CycleDone /\ enable_dial_inference /\ InferenceSucceeded
    /\ log.before.dial_insights # None
    /\ log.before.dial_insights # session_state.dial_insights
    /\ log.before.last_snapshot_file # session_state.last_snapshot_file

(***************************************************************************)
(* C6: on a render in which the capture trigger did not fire, the stored   *)
(* insights are rendered by the Presenter under the latest-results heading *)
(* if and only if lastInsights is set and lastSnapshotPath is set.         *)
(***************************************************************************)
C6_RedisplayIffBothSet ==
    (pc = "done" /\ ~clicked) =>
        /\ ("Latest DIAL API Insights" \in Headings(log)) <=>
                (session_state.dial_insights # None /\ session_state.last_snapshot_file # None)
        /\ \A i \in 1..Len(log.presented) :
                /\ log.presented[i].heading = "Latest DIAL API Insights"
                /\ log.presented[i].insights = session_state.dial_insights
                /\ log.presented[i].snapshot_file = session_state.last_snapshot_file

\* a plain re-render showed the stored insights
C6_Witness ==
    /\ pc = "done" /\ ~clicked
    /\ Len(log.presented) = 1
    /\ session_state.dial_insights # None


(***************************************************************************)
(* C7: when the snapshot encode/write step reports failure or raises, the  *)
(* rest of the capture cycle is aborted: the frame is not displayed, the   *)
(* Inference Client is not invoked, lastSnapshotPath stays absent, and an  *)
(* error message is displayed.                                             *)
(***************************************************************************)
WriteFailed == log.writes # <<>> /\ log.writes[Len(log.writes)].out # "ok"

C7_WriteFailureAborts ==
    WriteFailed =>
        /\ pc = "done"
        /\ ~log.displayed
        /\ log.posted = <<>> /\ log.inference = None /\ log.presented = <<>>
        /\ session_state.last_snapshot_file = None
        /\ log.msgs \cap SaveMessages # {}

\* cv2.imwrite returned False in a cycle that had inference enabled
C7_Witness ==
    /\ WriteFailed
    /\ log.writes[1].out = "false"
    /\ enable_dial_inference
    /\ pc = "done"

(***************************************************************************)
(* C8: in network and local mode, on every success path and every failure  *)
(* path, every capture session created during a capture cycle has been     *)
(* released when acquisition is over; no session stays open into the rest  *)
(* of the render or into the next render.                                  *)
(***************************************************************************)
C8_SessionsReleased == pc \notin AcquisitionPcs => live = {}

\* a network session was opened, its read raised, and it has been released
C8_Witness ==
    /\ pc = "frame_check"
    /\ cap = Some(Handle("net", 0))
    /\ log.netReads = <<"Exception">>
    /\ live = {}

(***************************************************************************)
(* C9: in local mode the device indices are probed one at a time in the    *)
(* order 0, 1, 2, 3; each opened session gets exactly one probe read;      *)
(* probing stops at the first index whose read yields a frame, so no       *)
(* higher index is opened; a probed session that is not selected is        *)
(* released before the next index is opened, so at most one session is     *)
(* open at any moment.                                                     *)
(***************************************************************************)
ProbePcs == {"probe_open", "probe_read", "probe_release", "probe_next"}

ProbeReadsOf(i) == Cardinality({j \in 1..Len(log.probeReads) : log.probeReads[j] = i})

C9_SequentialProbe ==
    /\ Len(log.probed) <= NumProbeIndices
    /\ \A i \in 1..Len(log.probed) :
        /\ log.probed[i].idx = i - 1
        /\ ProbeReadsOf(i - 1) =
              IF log.probed[i].opened /\ ~(pc = "probe_read" /\ idx = i - 1) THEN 1 ELSE 0
    /\ camera_index # None =>
        /\ Len(log.probed) = camera_index[1] + 1
        /\ pc \notin ProbePcs
        /\ cap = Some(Handle("local", camera_index[1]))
    /\ Cardinality(live) <= 1
    /\ pc = "probe_open" => live = {}

\* indices 0 and 1 opened but gave no frame, index 2 gave one and is kept
C9_Witness ==
    /\ pc = "local_check"
    /\ camera_index = Some(2)
    /\ log.probed[1].opened /\ log.probed[2].opened
    /\ log.probeReads = <<0, 1, 2>>
    /\ live = {Handle("local", 2)}

(***************************************************************************)
(* C10: in network mode, when the URL is empty after trimming no capture   *)
(* session is opened and an empty-URL failure is reported; otherwise       *)
(* exactly one session is opened, a frame read is attempted only if that   *)
(* session opened, a session that did not open yields a connection         *)
(* failure and a failed read yields a capture failure, and in every        *)
(* failing case no frame is acquired.                                      *)
(***************************************************************************)
AllBlank(url) == \A i \in 1..Len(url) : url[i] = " "

InSeq(x, q) == \E i \in 1..Len(q) : q[i] = x

C10_NetworkAcquisition ==
    (clicked /\ camera_source = "Network Camera URL") =>
        /\ (AllBlank(camera_url) /\ pc \notin {"clear", "net_url"}) =>
                /\ log.netOpens = <<>>
                /\ "Please enter a camera URL." \in log.msgs
                /\ frame = None
        /\ (~AllBlank(camera_url) /\ pc \notin {"clear", "net_url", "net_open"}) =>
                /\ Len(log.netOpens) = 1
                /\ "Please enter a camera URL." \notin log.msgs
                /\ (log.netOpens = <<"opened">> /\ pc # "net_read") => Len(log.netReads) = 1
        /\ log.netReads # <<>> => (log.netOpens = <<"opened">> /\ Len(log.netReads) = 1)
        /\ InSeq("closed", log.netOpens) =>
                "Unable to connect to camera URL" \in log.msgs /\ log.netReads = <<>>
        /\ InSeq("none", log.netReads) =>
                "Failed to capture frame from network camera." \in log.msgs
        /\ frame # None => (log.netOpens = <<"opened">> /\ log.netReads = <<"frame">>)
        /\ (pc = "frame_check" /\ frame = None) => log.msgs # {}

\* a URL of blanks only was rejected without opening a session
C10_Witness ==
    /\ clicked /\ camera_source = "Network Camera URL"
    /\ pc = "frame_check"
    /\ camera_url = <<" ">>
    /\ log.netOpens = <<>>
    /\ "Please enter a camera URL." \in log.msgs

(***************************************************************************)
(* The Inference Client's contract, under ClientSpec.                      *)
(***************************************************************************)
Returned == pc = "returned" /\ log.response # None
response == log.response[1]
outcome == log.inference[1]
Is2xx(status) == status >= 200 /\ status <= 299

\* C11: every response whose status is not a 2xx success makes the call fail
\* with the HTTP error, which carries the status and an excerpt of at most 200
\* characters of the body; no insights are returned.
C11_NonSuccessIsHttpError ==
    (Returned /\ ~Is2xx(response.status)) =>
        /\ ~outcome.ok
        /\ outcome.exc = "HTTPError"
        /\ outcome.insights = None
        /\ outcome.detail.status = Some(response.status)
        /\ outcome.detail.excerpt # None
        /\ outcome.detail.excerpt[1].of = response.text
        /\ outcome.detail.excerpt[1].len <= 200

\* C12: every 2xx response whose body parses as JSON, whatever its shape,
\* makes the call succeed with a result whose raw_response is the parsed
\* body; the call fails as a malformed response only when the body does not
\* parse.
C12_ParsableBodySucceeds ==
    (Returned /\ Is2xx(response.status)) =>
        /\ response.text \in JsonTexts =>
                /\ outcome.ok
                /\ outcome.insights[1].raw_response = json(response.text)
        /\ response.text \notin JsonTexts => outcome.exc = "ValueError"

\* C13: for a JSON-object body, status, predictions, detections, labels,
\* metadata and confidence are the body's value when the key is present and
\* "unknown", [], [], [], {} and absent (None) when it is not; results,
\* analysis and objects are in the result exactly when they are in the body,
\* with the body's value; raw_response is the whole body.
C13_Defaults ==
    ("status" :> JStr("unknown")) @@ ("predictions" :> JList("[]")) @@
    ("detections" :> JList("[]")) @@ ("labels" :> JList("[]")) @@
    ("metadata" :> JMap("{}")) @@ ("confidence" :> JNull)

C13_FieldsFromBody ==
    (Returned /\ Is2xx(response.status) /\ response.text \in ObjectTexts) =>
        /\ outcome.ok
        /\ LET body == Members(response.text)
               result == outcome.insights[1]
           IN  /\ \A k \in DOMAIN C13_Defaults :
                    /\ k \in DOMAIN result
                    /\ result[k] = IF k \in DOMAIN body THEN body[k] ELSE C13_Defaults[k]
               /\ \A k \in {"results", "analysis", "objects"} :
                    /\ k \in DOMAIN result <=> k \in DOMAIN body
                    /\ k \in DOMAIN body => result[k] = body[k]
               /\ result.raw_response = [type |-> "map", v |-> response.text]

\* a body with an explicit null, one optional key and defaults to fill in
C13_Witness ==
    /\ Returned /\ outcome.ok
    /\ response = [status |-> 201, text |-> "{status:null,detections,analysis}"]
    /\ outcome.insights[1].status = JNull
    /\ outcome.insights[1].labels = JList("[]")
    /\ "analysis" \in DOMAIN outcome.insights[1]
    /\ "objects" \notin DOMAIN outcome.insights[1]

(***************************************************************************)
(* C14: in each capture cycle the endpoint receives at most one POST, with *)
(* no retry after a failure; it receives one only when inference is        *)
(* enabled and acquisition and persistence both succeeded in that cycle,   *)
(* and the file sent is the path written in that cycle.                    *)
(***************************************************************************)
C14_AtMostOnePost ==
    /\ Len(log.posted) <= 1
    /\ log.posted # <<>> =>
            /\ clicked /\ enable_dial_inference
            /\ frame # None
            /\ Len(log.writes) = 1
            /\ log.writes[1].out = "ok"
            /\ log.writes[1].path # None
            /\ log.posted[1] = log.writes[1].path

\* a cycle whose only POST failed and was not repeated
C14_Witness ==
    /\ CycleDone /\ InferenceFailed
    /\ Len(log.posted) = 1
    /\ log.response # None /\ log.response[1].status = 500
    /\ log.posted[1] = log.writes[1].path

(***************************************************************************)
(* The Presenter's contract, under PresenterSpec.                          *)
(***************************************************************************)
Displayed == pc = "displayed" /\ log.rendered # None
argument == session_state.dial_insights[1]
sections == log.rendered[1].out
Mapping(x) == x.type = "dict"
FieldsShown == {sections[i].field : i \in 1..Len(sections)}

\* C15: for a mapping-shaped argument the sections come in the order status,
\* confidence, predictions, detections, labels, results, analysis, objects,
\* metadata, raw response; the raw-response section is emitted exactly once
\* and is the last one.
C15_Rank ==
    ("status" :> 1) @@ ("confidence" :> 2) @@ ("predictions" :> 3) @@ ("detections" :> 4) @@
    ("labels" :> 5) @@ ("results" :> 6) @@ ("analysis" :> 7) @@ ("objects" :> 8) @@
    ("metadata" :> 9) @@ ("raw_response" :> 10)

C15_FixedOrder ==
    (Displayed /\ Mapping(argument)) =>
        /\ \A i, j \in 1..Len(sections) :
                (i < j /\ sections[i].field \in DOMAIN C15_Rank) =>
                    /\ sections[j].field \in DOMAIN C15_Rank
                    /\ C15_Rank[sections[i].field] <= C15_Rank[sections[j].field]
        /\ Cardinality({i \in 1..Len(sections) : sections[i].field = "raw_response"}) = 1
        /\ sections[Len(sections)].field = "raw_response"
        /\ sections[Len(sections)].call = "expander"

\* every field filled: all ten sections, after the caption
C15_Witness ==
    /\ Displayed /\ Mapping(argument)
    /\ session_state.last_snapshot_file # None
    /\ FieldsShown = DOMAIN C15_Rank \cup {"snapshot_file"}
    /\ Len(sections) = 18

\* C16: for a mapping-shaped argument and each of the nine fields, nothing is
\* emitted for the field when it is absent or empty, and its section is
\* emitted when it is present and non-empty; the raw-response section is
\* emitted even when raw_response is absent or empty, as an empty structure.
C16_Empty(v) == v \in {JNull, JStr(""), JList("[]"), JMap("{}")}
C16_Fields == DOMAIN C15_Rank \ {"raw_response"}
C16_Section(f) == \E i \in 1..Len(sections) : sections[i].field = f /\ sections[i].call # "error"

C16_SkipAbsentOrEmpty ==
    (Displayed /\ Mapping(argument)) =>
        /\ \A f \in C16_Fields :
                IF f \notin DOMAIN argument.fields \/ C16_Empty(argument.fields[f])
                THEN f \notin FieldsShown
                ELSE C16_Section(f)
        /\ \E i \in 1..Len(sections) :
                /\ sections[i].field = "raw_response"
                /\ sections[i].call = "expander"
                /\ "raw_response" \notin DOMAIN argument.fields => sections[i].shows = JMap("{}")
                /\ "raw_response" \in DOMAIN argument.fields =>
                        sections[i].shows = argument.fields["raw_response"]

\* C17: an argument that is not mapping-shaped gets exactly one
\* validation-error section and nothing else; for any argument at all the
\* function returns normally.
C17_ValidationErrorOnly ==
    Displayed =>
        /\ ~log.rendered[1].exc
        /\ ~Mapping(argument) =>
                /\ Len(sections) = 1
                /\ sections[1].call = "error"
                /\ sections[1].shows = JStr("Invalid insights data: Expected a dictionary.")

\* a list given with a snapshot path: the one error and not even the caption
C17_Witness ==
    /\ Displayed
    /\ argument = JList("[1]")
    /\ session_state.last_snapshot_file # None
    /\ Len(sections) = 1 /\ sections[1].call = "error"

(***************************************************************************)
(* C19: provided every external call returns, every capture cycle          *)
(* terminates, whatever stages fail in it, and after it the application    *)
(* accepts a further capture trigger.  Checked under LiveSpec.             *)
(***************************************************************************)
Trigger == Rerun /\ clicked'

C19_CycleTerminates ==
    (clicked /\ pc # "idle") ~> (pc = "idle" /\ ENABLED Trigger)

\* a cycle that went through a display failure and an inference failure and
\* reached its end
C19_Witness ==
    /\ clicked /\ pc = "done"
    /\ "Error displaying image" \in log.msgs
    /\ InferenceFailed

(***************************************************************************)
(* C20: in every capture cycle the encode/write of the snapshot file is    *)
(* attempted only in a state where the snapshots directory exists; when    *)
(* the directory is missing it is created first, and when creation fails   *)
(* no write is attempted and a storage failure is displayed.               *)
(***************************************************************************)
C20_WriteOnlyIntoDirectory ==
    /\ pc \in {"genname", "imwrite"} => dirEntry = "dir"
    /\ \A i \in 1..Len(log.writes) : log.writes[i].dir = "dir"
    /\ "Error creating snapshots directory" \in log.msgs =>
            (log.writes = <<>> /\ pc = "done")

(***************************************************************************)
(* C21: a render in which the capture trigger does not fire leaves         *)
(* lastInsights and lastSnapshotPath unchanged, whatever their values and  *)
(* however many such renders follow one another; only a capture trigger    *)
(* changes them.                                                           *)
(***************************************************************************)
C21_OnlyTriggerChangesState ==
    [][session_state' # session_state => (clicked /\ clicked')]_vars

\* a plain re-render displayed the stored result and left both values alone
C21_Witness ==
    /\ pc = "done" /\ ~clicked
    /\ "Latest DIAL API Insights" \in Headings(log)
    /\ session_state = log.before
    /\ session_state.last_snapshot_file # None

(***************************************************************************)
(* C22: at the end of every render, after any sequence of capture triggers *)
(* and plain re-renders, if lastInsights is set then lastSnapshotPath is   *)
(* set and names the snapshot file that was sent to the endpoint to        *)
(* produce those insights.  Stated on steps: whenever a step leaves        *)
(* lastInsights set, lastSnapshotPath is set too, and a step that changes  *)
(* the stored pair and leaves lastInsights set is the store of a           *)
(* successful call of this run, whose one posted file is the stored path.  *)
(***************************************************************************)
C22_PathNamesFileSent ==
    [][/\ session_state'.dial_insights # None => session_state'.last_snapshot_file # None
       /\ (session_state' # session_state /\ session_state'.dial_insights # None) =>
            /\ log'.inference # None
            /\ log'.inference[1].ok
            /\ log'.inference[1].insights = session_state'.dial_insights
            /\ log'.posted = <<session_state'.last_snapshot_file>>
            /\ Len(log'.writes) = 1
            /\ log'.writes[1].path = session_state'.last_snapshot_file]_vars

\* a later plain re-render still holds the pair stored by an earlier cycle
C22_Witness ==
    /\ pc = "done" /\ ~clicked
    /\ clock = 1
    /\ session_state.dial_insights # None
    /\ session_state.last_snapshot_file = Some(Filename(0))

(***************************************************************************)
(* C23: in every reachable state lastInsights is absent or a mapping       *)
(* produced by the Inference Client that contains the keys status,         *)
(* predictions, confidence, detections, labels, metadata and raw_response; *)
(* so the Presenter never emits its validation-error section for a value   *)
(* taken from lastInsights.                                                *)
(***************************************************************************)
C23_StoredInsightsAreNormalized ==
    /\ session_state.dial_insights # None =>
            LET stored == session_state.dial_insights[1]
            IN  /\ {"status", "predictions", "confidence", "detections", "labels", "metadata",
                     "raw_response"} \subseteq DOMAIN stored
                /\ stored.raw_response.type = "map"
                /\ stored = BuildInsights(stored.raw_response)
    /\ (pc = "done" /\ log.rendered # None) =>
            /\ ~log.rendered[1].exc
            /\ \A i \in 1..Len(log.rendered[1].out) :
                    log.rendered[1].out[i].shows #
                        JStr("Invalid insights data: Expected a dictionary.")

\* the latest-results block displayed a stored result that has an optional key
C23_Witness ==
    /\ pc = "done" /\ log.rendered # None
    /\ session_state.dial_insights # None
    /\ "results" \in DOMAIN session_state.dial_insights[1]
    /\ \E i \in 1..Len(log.rendered[1].out) : log.rendered[1].out[i].field = "results"

(***************************************************************************)
(* C24: in the render in which a capture trigger fires and inference       *)
(* succeeds, the Presenter is invoked twice on the same insights and       *)
(* snapshot path, once inside the capture cycle and once more by the       *)
(* latest-results block at the end of the same render; in a render whose   *)
(* capture cycle failed or ran with inference disabled, the latest-results *)
(* block invokes the Presenter zero times.                                 *)
(***************************************************************************)
C24_PresentedTwiceOnSuccess ==
    (pc = "done" /\ clicked) =>
        IF InferenceSucceeded
        THEN /\ Len(log.presented) = 2
             /\ log.presented[1].heading = "DIAL API Insights"
             /\ log.presented[2].heading = "Latest DIAL API Insights"
             /\ log.presented[1].insights = log.presented[2].insights
             /\ log.presented[1].snapshot_file = log.presented[2].snapshot_file
             /\ log.presented[1].insights = log.inference[1].insights
             /\ log.presented[1].snapshot_file = filename
             /\ filename # None
        ELSE /\ log.presented = <<>>
             /\ log.rendered = None

\* a successful cycle, displayed twice in its render
C24_Witness ==
    /\ pc = "done" /\ clicked /\ InferenceSucceeded
    /\ Len(log.presented) = 2
    /\ log.presented[2].heading = "Latest DIAL API Insights"
    /\ log.presented[2].insights = session_state.dial_insights

=============================================================================
